---- MODULE Spec2Model ----
(***************************************************************************)
(* The CSV import of hr-bot-csv: the upload endpoint of                    *)
(* csv_upload_router.py, its database handlers, and the cleaning steps of  *)
(* the Person and Faculty pipelines that feed them.                        *)
(*                                                                         *)
(* Text is a sequence of one-character strings, so that strip() and        *)
(* lower() are computed, not assumed.  A missing cell (NaN / None) is the  *)
(* empty sequence: pandas reads an empty cell as NaN, so no cell of a      *)
(* loaded table is the empty string.                                       *)
(***************************************************************************)
EXTENDS Integers, Sequences, FiniteSets, TLC

\* Source rows read over one behaviour, all imports together.
MaxRows == 2

\* Source rows read over one behaviour of the longer tables
MaxTrimRows == 3

NULL == << >>

-----------------------------------------------------------------------------
(* Text helpers: str.strip, str.lower, re.split(r'[;,/]'), ', '.join       *)

UpperCase ==
    << "A", "B", "C", "D", "E", "F", "G", "H", "I", "J", "K", "L", "M",
       "N", "O", "P", "Q", "R", "S", "T", "U", "V", "W", "X", "Y", "Z" >>
LowerCase ==
    << "a", "b", "c", "d", "e", "f", "g", "h", "i", "j", "k", "l", "m",
       "n", "o", "p", "q", "r", "s", "t", "u", "v", "w", "x", "y", "z" >>

lower_char(c) ==
    IF \E i \in DOMAIN UpperCase : UpperCase[i] = c
    THEN LowerCase[CHOOSE i \in DOMAIN UpperCase : UpperCase[i] = c]
    ELSE c

lower(s) == [i \in 1..Len(s) |-> lower_char(s[i])]

RECURSIVE lstrip(_)
lstrip(s) == IF s # << >> /\ Head(s) = " " THEN lstrip(Tail(s)) ELSE s

RECURSIVE rstrip(_)
rstrip(s) ==
    IF s # << >> /\ s[Len(s)] = " " THEN rstrip(SubSeq(s, 1, Len(s) - 1)) ELSE s

strip(s) == lstrip(rstrip(s))

Separators == {";", ",", "/"}

\* re.split(r'[;,/]', s): the pieces between separators, empty pieces kept.
RECURSIVE re_split(_, _)
re_split(s, piece) ==
    IF s = << >> THEN << piece >>
    ELSE IF Head(s) \in Separators
         THEN << piece >> \o re_split(Tail(s), << >>)
         ELSE re_split(Tail(s), Append(piece, Head(s)))

\* The parts joined by ',' alone
RECURSIVE join_comma(_)
join_comma(parts) ==
    IF Len(parts) = 0 THEN << >>
    ELSE IF Len(parts) = 1 THEN parts[1]
    ELSE parts[1] \o << "," >> \o join_comma(Tail(parts))

\* ', '.join(parts)
RECURSIVE join(_)
join(parts) ==
    IF Len(parts) = 0 THEN << >>
    ELSE IF Len(parts) = 1 THEN parts[1]
    ELSE parts[1] \o << ",", " " >> \o join(Tail(parts))

RECURSIVE keep_nonempty(_)
keep_nonempty(parts) ==
    IF parts = << >> THEN << >>
    ELSE IF strip(Head(parts)) = << >> THEN keep_nonempty(Tail(parts))
    ELSE << lower(strip(Head(parts))) >> \o keep_nonempty(Tail(parts))

\* PersonDataPipeline.clean_email and FacultyDataPipeline.clean_email
clean_email(email) ==
    IF email = NULL THEN NULL
    ELSE join(keep_nonempty(re_split(email, << >>)))

-----------------------------------------------------------------------------
(* Cells of the uploaded table                                             *)

EmailCells == {NULL, << "a" >>, << " ", "B" >>}
CnicCells  == {NULL, << "1" >>, << " ", "1" >>, << "2" >>}
CodeCells  == {NULL, << 0 >>, << 1 >>}
DesignationCells == {NULL, << "L" >>}

\* One row of the uploaded table, by source header.
SourceRows ==
    [Email : EmailCells, CNIC : CnicCells, Code : CodeCells,
     Academic_Designation : DesignationCells, Qualification_1 : {NULL}]

\* The rows that carry an email and a CNIC without padding
PlainRows ==
    {r \in SourceRows : r.Email # NULL /\ r.CNIC \in {<< "1" >>, << "2" >>}}

\* Rows with an email and a CNIC, the CNIC with or without surrounding blanks
TrimRows ==
    {r \in [Email : {<< "a" >>, << " ", "B" >>, << "c" >>},
            CNIC : {<< "1" >>, << " ", "1" >>, << "2" >>},
            Code : {NULL}, Academic_Designation : {NULL},
            Qualification_1 : {NULL}] : TRUE}

\* Rows with an email and a CNIC, with or without a qualification title
QualRows ==
    {r \in [Email : {<< "a" >>, << " ", "B" >>},
            CNIC : {<< "1" >>, << "2" >>},
            Code : {NULL}, Academic_Designation : {NULL, << "L" >>},
            Qualification_1 : {NULL, << "M" >>}] : TRUE}

-----------------------------------------------------------------------------
(* The cleaning pipelines (utils/csv_cleaner.py, utils/faculty_details.py) *)

NA == << "N", "/", "A" >>
UNKNOWN == << "U", "n", "k", "n", "o", "w", "n" >>
\* PersonDataPipeline.fill_defaults['CNIC'] = '0000000000000'
CNIC_DEFAULT == << "0", "0", "0", "0", "0", "0", "0", "0", "0", "0", "0", "0", "0" >>

\* DataFrame.fillna for one cell
fillna(cell, default) == IF cell = NULL THEN default ELSE cell

\* load_data(file_path): file_path.endswith(...) needs a str; a DataFrame has no
\* attribute 'endswith', and the AttributeError is re-raised.
load_data(arg) ==
    IF arg.kind = "path" THEN [raised |-> FALSE, data |-> arg.data]
    ELSE [raised |-> TRUE, data |-> << >>]

\* PersonDataPipeline steps 2-9 for one row (columns Email and CNIC #)
person_clean(row) ==
    [Email |-> fillna(clean_email(row.Email), NA),
     CNIC  |-> fillna(row.CNIC, CNIC_DEFAULT)]

\* FacultyDataPipeline.process_code_column: to_int
\* (int(float(x)), None when x is missing, 'N/A' or no number). In the numeric
\* columns a number is a one-element sequence and a text has two characters or more.
is_number(x) == Len(x) = 1

to_int(x) == IF x # NULL /\ is_number(x) THEN x ELSE NULL

\* FacultyDataPipeline steps for one row (columns Email, Code, Academic Designation)
faculty_clean(row) ==
    LET filled == fillna(row.Academic_Designation, NA) IN
    [Email |-> fillna(clean_email(row.Email), NA),
     Code  |-> fillna(to_int(row.Code), NA),
     Academic_Designation |-> IF filled = NA THEN UNKNOWN ELSE filled]

\* PersonDataPipeline.process_pipeline(file_path)
person_process_pipeline(arg) ==
    LET loaded == load_data(arg) IN
    IF loaded.raised THEN [success |-> FALSE, cleaned_data |-> << >>]
    ELSE [success |-> TRUE,
          cleaned_data |-> [i \in 1..Len(loaded.data) |-> person_clean(loaded.data[i])]]

\* FacultyDataPipeline.process_pipeline(file_path)
faculty_process_pipeline(arg) ==
    LET loaded == load_data(arg) IN
    IF loaded.raised THEN [success |-> FALSE, cleaned_data |-> << >>]
    ELSE [success |-> TRUE,
          cleaned_data |-> [i \in 1..Len(loaded.data) |-> faculty_clean(loaded.data[i])]]

\* standardize_column_names: rename, concat side by side
standardize_column_names(person_df, faculty_df) ==
    [i \in 1..Len(person_df) |->
        [email |-> person_df[i].Email,
         cnic |-> person_df[i].CNIC,
         university_email |-> faculty_df[i].Email,
         code |-> faculty_df[i].Code,
         academic_designation |-> faculty_df[i].Academic_Designation]]

\* process_pipelines(df): both pipelines are handed df.copy(), a DataFrame.
process_pipelines(df) ==
    LET person_result == person_process_pipeline([kind |-> "DataFrame", data |-> df])
        faculty_result == faculty_process_pipeline([kind |-> "DataFrame", data |-> df])
    IN  IF ~person_result.success
        THEN [raised |-> TRUE, message |-> "Person data processing failed",
              person |-> << >>, faculty |-> << >>]
        ELSE IF ~faculty_result.success
        THEN [raised |-> TRUE, message |-> "Faculty data processing failed",
              person |-> << >>, faculty |-> << >>]
        ELSE IF Len(person_result.cleaned_data) # Len(faculty_result.cleaned_data)
        THEN [raised |-> TRUE, message |-> "Person and faculty data row count mismatch",
              person |-> << >>, faculty |-> << >>]
        ELSE [raised |-> FALSE, message |-> "",
              person |-> person_result.cleaned_data,
              faculty |-> faculty_result.cleaned_data]

\* The combined table the cleaning steps give for df when each pipeline loads
\* the file itself (process_pipeline called with a path).
cleaned_table(df) ==
    standardize_column_names(
        person_process_pipeline([kind |-> "path", data |-> df]).cleaned_data,
        faculty_process_pipeline([kind |-> "path", data |-> df]).cleaned_data)

-----------------------------------------------------------------------------
(* State                                                                   *)

VARIABLES
    person,             \* committed table person: rows [id, email, cnic, src], src the
                        \* number of the source row among all rows read
    faculty,            \* committed table faculty
    designation,        \* committed table designation: rows [id, title, type]
    qualification,      \* committed table qualification
    person_seq,         \* next value of person.id (a sequence is never rolled back)
    designation_seq,    \* next value of designation.id
    session,            \* rows added in the open transaction, one set per table
    rows_read,          \* source rows read so far
    entry,              \* how the current call was entered
    pc,                 \* position in upload_csv
    df,                 \* the uploaded table of the current call
    again,              \* the current call re-imports the table of the call before it
    combined_df,
    designation_cache,
    person_id_map,
    new_faculties,      \* the Faculty records handle_faculty accepted
    faculty_count,
    qual_count,
    raised,             \* the exception on its way to upload_csv's except clauses
    response,
    before,             \* the committed tables when the current call started
    args,               \* the argument of a cleaning function called on its own
    returned,           \* what that call returned
    academic_year,      \* committed table academic_year: rows [id, is_current, start_date]
    faculty_track_assignment,   \* committed table faculty_track_assignment
    assignment_seq,     \* next value of faculty_track_assignment.id
    decisions,          \* the calls of save_faculty_track_decision, one per caller
    decision_log,       \* the calls that have ended, in the order they ended
    _async_engine,      \* database/connect.py: the cached engine, NoId for None
    _async_session_maker,   \* the cached session maker [bind], NoMaker for None
    engines,            \* the engines created and disposed so far, DATABASE_URL
    engine_log,         \* the calls on database/connect.py and what they returned
    session_memories,   \* bot/hr.py: the messages kept per session id
    generate_calls,     \* the calls of HR_AI.generate in progress, one per task
    generate_log        \* the calls of HR_AI.generate that have ended

vars == << person, faculty, designation, qualification, person_seq, designation_seq,
           session, rows_read, entry, pc, df, again, combined_df, designation_cache,
           person_id_map, new_faculties, faculty_count, qual_count, raised, response,
           before, args, returned, academic_year, faculty_track_assignment,
           assignment_seq, decisions, decision_log, _async_engine,
           _async_session_maker, engines, engine_log, session_memories,
           generate_calls, generate_log >>

\* The variables of a cleaning function called on its own
function_vars == << args, returned >>

\* The variables of save_faculty_track_decision (database/faculty_track_decision.py)
decision_vars == << academic_year, faculty_track_assignment, assignment_seq,
                    decisions, decision_log >>

\* The variables of the components beside the import
\* The variables of database/connect.py
connect_vars == << _async_engine, _async_session_maker, engines, engine_log >>

\* The variables of bot/hr.py
bot_vars == << session_memories, generate_calls, generate_log >>

component_vars == << decision_vars, connect_vars, bot_vars >>

\* No function has been called on its own
NoCall == [fn |-> "none"]

storage == [person |-> person, faculty |-> faculty, designation |-> designation,
            qualification |-> qualification]

EmptySession == [person |-> {}, faculty |-> {}, designation |-> {}, qualification |-> {}]

NoResponse == [success |-> FALSE, status_code |-> 0, error |-> "", data |-> << >>]
NoError == [message |-> "", cause |-> "", status_code |-> 0]

\* A designation table may hold rows of either DesignationType before any import.
SeedDesignations ==
    { {}, {[id |-> 1, title |-> << "L" >>, type |-> "administrative"]} }

\* No caller of save_faculty_track_decision, on empty tables
NoDecisions ==
    /\ academic_year = {} /\ faculty_track_assignment = {}
    /\ assignment_seq = 1
    /\ decisions = << >> /\ decision_log = << >>

\* None as a person_id, a designation_id or an engine (ids start at 1)
NoId == 0

\* _async_session_maker = None
NoMaker == [bind |-> NoId]

\* database/connect.py as the module is loaded
NoEngine ==
    /\ _async_engine = NoId /\ _async_session_maker = NoMaker
    /\ engines = [created |-> 0, disposed |-> {}, disposing |-> << >>,
                  database_url |-> TRUE]
    /\ engine_log = << >>

\* bot/hr.py as the module is loaded: session_memories = {}
NoChat ==
    /\ session_memories = << >>
    /\ generate_calls = << >> /\ generate_log = << >>

\* The components beside the import, not in use
InitComponents == NoDecisions /\ NoEngine /\ NoChat

\* The import before any call of upload_csv
InitUpload ==
    /\ person = {} /\ faculty = {} /\ qualification = {}
    /\ designation \in SeedDesignations
    /\ person_seq = 1
    /\ designation_seq = Cardinality(designation) + 1
    /\ session = EmptySession
    /\ rows_read = 0
    /\ entry = "none" /\ pc = "idle"
    /\ df = << >> /\ again = FALSE /\ combined_df = << >>
    /\ designation_cache = << >> /\ person_id_map = << >>
    /\ new_faculties = << >>
    /\ faculty_count = 0 /\ qual_count = 0
    /\ raised = NoError
    /\ response = NoResponse
    /\ before = storage

\* The program before any call of upload_csv
InitProgram == InitUpload /\ InitComponents

Init ==
    /\ InitProgram
    /\ args = NoCall /\ returned = NoCall

-----------------------------------------------------------------------------
(* Helpers on tables                                                       *)

Range(f) == {f[i] : i \in DOMAIN f}

\* Series.unique(): the distinct values in order of first appearance
RECURSIVE unique(_, _)
unique(values, seen) ==
    IF values = << >> THEN << >>
    ELSE IF Head(values) \in seen THEN unique(Tail(values), seen)
    ELSE << Head(values) >> \o unique(Tail(values), seen \cup {Head(values)})

\* All tables with at most n rows drawn from a set of rows
Tables(rows, n) == UNION {[1..k -> rows] : k \in 0..n}

\* What the open transaction reads: committed rows and its own
visible(table_name) == storage[table_name] \cup session[table_name]

-----------------------------------------------------------------------------
(* upload_csv: POST /upload-csv                                            *)

UploadFiles(rows, n) ==
    {[suffix |-> ".txt", readable |-> TRUE, rows |-> << >>],
     [suffix |-> ".csv", readable |-> FALSE, rows |-> << >>]}
    \cup {[suffix |-> ".csv", readable |-> TRUE, rows |-> t] : t \in Tables(rows, n)}

create_error_response(message, status_code) ==
    [success |-> FALSE, status_code |-> status_code, error |-> message, data |-> << >>]

create_success_response(data) ==
    [success |-> TRUE, status_code |-> 201, error |-> "", data |-> data]

\* A call starts: nothing is staged, the per-call values are fresh.
begin(how, rows, max_rows) ==
    /\ pc \in {"idle", "returned"}
    /\ rows_read + Len(rows) <= max_rows
    /\ rows_read' = rows_read + Len(rows)
    /\ entry' = how
    /\ df' = rows
    /\ again' = (pc = "returned" /\ rows # << >> /\ rows = df)
    /\ before' = storage
    /\ designation_cache' = << >> /\ person_id_map' = << >>
    /\ new_faculties' = << >>
    /\ faculty_count' = 0 /\ qual_count' = 0
    /\ UNCHANGED << person, faculty, designation, qualification, person_seq,
                    designation_seq, session, function_vars, component_vars >>

\* upload_csv up to the database operations: file type, save, read, pipelines
upload_csv(source_rows, max_rows) ==
    \E file \in UploadFiles(source_rows, max_rows - rows_read) :
        /\ begin("upload_csv", file.rows, max_rows)
        /\ IF file.suffix \notin {".csv", ".xlsx", ".xls"}
           THEN /\ response' = create_error_response("Invalid file type", 400)
                /\ pc' = "returned"
                /\ raised' = NoError
                /\ combined_df' = << >>
           ELSE IF ~file.readable
           THEN /\ raised' = [message |-> "Failed to read file", cause |-> "Exception",
                            status_code |-> 400]
                /\ pc' = "except"
                /\ response' = NoResponse
                /\ combined_df' = << >>
           ELSE IF file.rows = << >>
           THEN /\ raised' = [message |-> "Failed to read file: Uploaded file is empty",
                            cause |-> "CSVUploadError", status_code |-> 400]
                /\ pc' = "except"
                /\ response' = NoResponse
                /\ combined_df' = << >>
           ELSE LET processed == process_pipelines(file.rows) IN
                IF processed.raised
                THEN /\ raised' = [message |-> processed.message,
                                 cause |-> "AttributeError", status_code |-> 400]
                     /\ pc' = "except"
                     /\ response' = NoResponse
                     /\ combined_df' = << >>
                ELSE /\ combined_df' =
                            standardize_column_names(processed.person, processed.faculty)
                     /\ pc' = "handle_designations"
                     /\ raised' = NoError
                     /\ response' = NoResponse

\* The database operations of upload_csv entered on their own: the handlers are
\* called in upload_csv's order on the combined table of a cleaned file.
database_operations(source_rows, max_rows) ==
    \E rows \in Tables(source_rows, max_rows - rows_read) :
        /\ rows # << >>
        /\ begin("handlers", rows, max_rows)
        /\ combined_df' = cleaned_table(rows)
        /\ pc' = "handle_designations"
        /\ raised' = NoError
        /\ response' = NoResponse

\* Source rows read before the current call
rows_before == rows_read - Len(df)

call_vars == << rows_read, entry, df, again, before >>
tables == << person, faculty, designation, qualification >>

\* A handler raises CSVUploadError: upload_csv's except clause is next.
raise(message, cause, status_code) ==
    /\ raised' = [message |-> message, cause |-> cause, status_code |-> status_code]
    /\ pc' = "except"

-----------------------------------------------------------------------------
(* handle_designations                                                     *)

\* combined_df['academic_designation'].dropna().unique().tolist()
designation_titles(combined) ==
    LET column == [i \in 1..Len(combined) |-> combined[i].academic_designation]
        notna(t) == t # NULL
    IN  unique(SelectSeq(column, notna), {})

\* select(Designation).where(Designation.title.in_(designation_titles))
existing_designations(titles, rows) == {d \in rows : d.title \in Range(titles)}

\* [t for t in designation_titles if t not in existing_designations]
new_titles(titles, existing) ==
    LET is_new(t) == \A d \in existing : d.title # t
    IN  SelectSeq(titles, is_new)

\* Designation(title=title, type=DesignationType.academic), ids given by flush
new_designations(titles, next_id) ==
    {[id |-> next_id + i - 1, title |-> titles[i], type |-> "academic"] :
        i \in 1..Len(titles)}

\* session.flush(): designation.title is a unique column
designation_flush_ok(fresh, rows) ==
    /\ \A d \in fresh : \A e \in rows : e.title # d.title
    /\ \A d, e \in fresh : d.title = e.title => d = e

\* A flush that committed instead would leave the rows behind a later rollback.
flush_commits(fresh) ==
    /\ designation' = designation \cup fresh
    /\ session' = session

\* A handler that returned without the flush: the new rows are not written yet
flush_deferred(fresh) ==
    /\ session' = session
    /\ designation' = designation

\* session.add_all(new_designations); await session.flush(): the rows are written
\* inside the open transaction.
flush(fresh) ==
    /\ session' = [session EXCEPT !.designation = @ \cup fresh]
    /\ designation' = designation

handle_designations ==
    /\ pc = "handle_designations"
    /\ \E db_ok \in BOOLEAN :
        LET titles == designation_titles(combined_df)
            existing == existing_designations(titles, visible("designation"))
            fresh == new_designations(new_titles(titles, existing), designation_seq)
        IN  IF ~db_ok
            THEN /\ raise("Designation handling failed", "DatabaseError", 500)
                 /\ UNCHANGED << designation, session, designation_seq,
                                 designation_cache >>
            ELSE IF ~designation_flush_ok(fresh, visible("designation"))
            THEN /\ raise("Designation handling failed", "IntegrityError", 500)
                 /\ designation_seq' = designation_seq + Cardinality(fresh)
                 /\ UNCHANGED << designation, session, designation_cache >>
            ELSE /\ flush(fresh)
                 /\ designation_seq' = designation_seq + Cardinality(fresh)
                 /\ designation_cache' =
                        [t \in Range(titles) |->
                            CHOOSE d \in existing \cup fresh : d.title = t]
                 /\ pc' = "handle_persons"
                 /\ raised' = NoError
    /\ UNCHANGED << person, faculty, qualification, person_seq, call_vars, function_vars, component_vars, combined_df,
                    person_id_map, new_faculties, faculty_count, qual_count, response >>

-----------------------------------------------------------------------------
(* handle_persons                                                          *)

\* The person records of the rows that have an email, in row order.
persons_to_insert(combined, first_row) ==
    LET records == [i \in 1..Len(combined) |->
                        [email |-> combined[i].email, cnic |-> combined[i].cnic,
                         src |-> first_row + i]]
        has_email(p) == p.email # NULL
    IN  SelectSeq(records, has_email)

\* select(Person.email).where(Person.email.in_(person_emails))
existing_person_emails(person_emails, rows) ==
    {p.email : p \in rows} \cap person_emails

\* [p for p in persons_to_insert if p['email'] not in existing_emails]
new_persons(to_insert, existing_emails) ==
    LET is_new(p) == p.email \notin existing_emails
    IN  SelectSeq(to_insert, is_new)

\* INSERT INTO person ... VALUES (...), (...): ids from the sequence row by row;
\* the statement fails at the first row whose cnic breaks the unique constraint.
RECURSIVE insert_persons(_, _, _, _)
insert_persons(rows, taken_cnics, next_id, inserted) ==
    IF rows = << >>
    THEN [ok |-> TRUE, rows |-> inserted, next_id |-> next_id]
    ELSE IF Head(rows).cnic # NULL /\ Head(rows).cnic \in taken_cnics
    THEN [ok |-> FALSE, rows |-> {}, next_id |-> next_id + 1]
    ELSE insert_persons(Tail(rows), taken_cnics \cup {Head(rows).cnic}, next_id + 1,
                        inserted \cup {[id |-> next_id, email |-> Head(rows).email,
                                        cnic |-> Head(rows).cnic, src |-> Head(rows).src]})

\* A map that gives an email the id of any person, whatever that person's email
person_id_maps_any(person_emails, rows) ==
    LET found == {e \in person_emails : \E p \in rows : p.email = e}
    IN  [found -> {p.id : p \in rows}]

\* {row.email: row.id for row in result}: the query has no ORDER BY, so for an
\* email held by several persons any one of them may come last and win.
person_id_maps(person_emails, rows) ==
    LET found == {e \in person_emails : \E p \in rows : p.email = e}
    IN  {m \in [found -> {p.id : p \in rows}] :
            \A e \in found : \E p \in rows : p.email = e /\ p.id = m[e]}

handle_persons ==
    /\ pc = "handle_persons"
    /\ \E db_ok \in BOOLEAN :
        LET to_insert == persons_to_insert(combined_df, rows_before)
            person_emails == {p.email : p \in Range(to_insert)}
            existing_emails == existing_person_emails(person_emails, visible("person"))
            fresh == new_persons(to_insert, existing_emails)
            done == insert_persons(fresh, {p.cnic : p \in visible("person")},
                                   person_seq, {})
        IN  IF to_insert = << >>
            THEN /\ raise("No valid person records found with email addresses", "", 400)
                 /\ UNCHANGED << session, person_seq, person_id_map >>
            ELSE IF ~db_ok
            THEN /\ raise("Person processing failed", "DatabaseError", 500)
                 /\ UNCHANGED << session, person_seq, person_id_map >>
            ELSE IF ~done.ok
            THEN /\ raise("Person processing failed", "IntegrityError", 500)
                 /\ person_seq' = done.next_id
                 /\ UNCHANGED << session, person_id_map >>
            ELSE /\ session' = [session EXCEPT !.person = @ \cup done.rows]
                 /\ person_seq' = done.next_id
                 /\ person_id_map' \in
                        person_id_maps(person_emails, visible("person") \cup done.rows)
                 /\ pc' = "handle_faculty"
                 /\ raised' = NoError
    /\ UNCHANGED << tables, designation_seq, call_vars, function_vars, component_vars, combined_df, designation_cache,
                    new_faculties, faculty_count, qual_count, response >>

-----------------------------------------------------------------------------
(* handle_faculty                                                          *)

\* int(code) succeeds on a number; the filled default 'N/A' raises ValueError
is_int(code) == Len(code) = 1

\* A record that never takes the identifier of its designation
designation_id_none(cache, title) == NoId

\* designation = designation_cache.get(row.get('academic_designation'));
\* designation.id if designation else None
designation_id(cache, title) ==
    IF title \in DOMAIN cache THEN cache[title].id ELSE NoId

\* The faculty records of the rows with a known person and a university_email
faculties_to_create(combined, id_map, cache, first_row) ==
    LET person_id_of(i) ==
            IF combined[i].email \in DOMAIN id_map THEN id_map[combined[i].email]
            ELSE NoId
        records == [i \in 1..Len(combined) |->
            [code |-> IF combined[i].code # NULL /\ is_int(combined[i].code)
                      THEN combined[i].code[1] ELSE person_id_of(i),
             university_email |-> combined[i].university_email,
             person_id |-> person_id_of(i),
             designation_id |-> designation_id(cache, combined[i].academic_designation),
             src |-> first_row + i]]
        kept(f) == f.person_id # NoId /\ f.university_email # NULL
    IN  SelectSeq(records, kept)

\* emails = [f['university_email'] for f in faculties_to_create if f.get('university_email')]
\* select(Faculty.university_email).where(Faculty.university_email.in_(emails))
existing_faculty_emails(to_create, rows) ==
    LET emails == {f.university_email : f \in {g \in Range(to_create) : g.university_email # NULL}}
    IN  {f.university_email : f \in rows} \cap emails

\* codes = [f['code'] for f in faculties_to_create if f.get('code')]: a code of 0
\* is falsy and is left out of the lookup
\* select(Faculty.code).where(Faculty.code.in_(codes))
existing_faculty_codes(to_create, rows) ==
    LET codes == {f.code : f \in {g \in Range(to_create) : g.code # 0}}
    IN  {f.code : f \in rows} \cap codes

\* The loop "Filter out duplicates": both sets grow with each accepted record.
RECURSIVE filter_duplicates(_, _, _)
filter_duplicates(to_create, existing_emails, existing_codes) ==
    IF to_create = << >> THEN << >>
    ELSE LET f == Head(to_create) IN
         IF f.university_email \notin existing_emails /\ f.code \notin existing_codes
         THEN << f >> \o filter_duplicates(Tail(to_create),
                                          existing_emails \cup {f.university_email},
                                          existing_codes \cup {f.code})
         ELSE filter_duplicates(Tail(to_create), existing_emails, existing_codes)

\* INSERT INTO faculty: code and university_email are unique columns
faculty_insert_ok(records, rows) ==
    /\ \A i \in DOMAIN records :
          /\ \A f \in rows : f.code # records[i].code
          /\ \A f \in rows : f.university_email # records[i].university_email
    /\ \A i, j \in DOMAIN records :
          i # j => /\ records[i].code # records[j].code
                   /\ records[i].university_email # records[j].university_email

handle_faculty ==
    /\ pc = "handle_faculty"
    /\ \E db_ok \in BOOLEAN :
        LET to_create == faculties_to_create(combined_df, person_id_map,
                                             designation_cache, rows_before)
            accepted == filter_duplicates(
                            to_create,
                            existing_faculty_emails(to_create, visible("faculty")),
                            existing_faculty_codes(to_create, visible("faculty")))
        IN  IF to_create = << >>
            THEN /\ faculty_count' = 0
                 /\ new_faculties' = << >>
                 /\ pc' = "handle_qualifications"
                 /\ UNCHANGED << session, raised >>
            ELSE IF ~db_ok \/ ~faculty_insert_ok(accepted, visible("faculty"))
            THEN /\ raise("Faculty processing failed",
                          IF db_ok THEN "IntegrityError" ELSE "DatabaseError", 500)
                 /\ new_faculties' = IF db_ok THEN accepted ELSE << >>
                 /\ UNCHANGED << session, faculty_count >>
            ELSE /\ session' = [session EXCEPT !.faculty = @ \cup Range(accepted)]
                 /\ new_faculties' = accepted
                 /\ faculty_count' = Len(accepted)
                 /\ pc' = "handle_qualifications"
                 /\ raised' = NoError
    /\ UNCHANGED << tables, person_seq, designation_seq, call_vars, function_vars, component_vars, combined_df,
                    designation_cache, person_id_map, qual_count, response >>

-----------------------------------------------------------------------------
(* handle_qualifications                                                   *)

\* QualificationDataPipeline.process_pipeline(self, file_path) takes one
\* argument and returns a dict with the single key "message".
qualification_process_pipeline(argc) ==
    IF argc # 1 THEN [raised |-> TRUE, success |-> FALSE]
    ELSE [raised |-> FALSE, success |-> FALSE]

\* The handler calls process_pipeline(original_df, person_id_map): the TypeError
\* is caught and logged, and 0 is returned.
handle_qualifications ==
    /\ pc = "handle_qualifications"
    /\ LET qual_result == qualification_process_pipeline(2) IN
       IF qual_result.raised \/ ~qual_result.success
       THEN qual_count' = 0 /\ UNCHANGED session
       ELSE qual_count' = 0 /\ UNCHANGED session
    /\ pc' = "commit"
    /\ UNCHANGED << tables, person_seq, designation_seq, call_vars, function_vars, component_vars, combined_df,
                    designation_cache, person_id_map, new_faculties, faculty_count,
                    raised, response >>

-----------------------------------------------------------------------------
(* The end of upload_csv: commit and success response, or the except clauses *)

result_data ==
    [persons_processed |-> Cardinality(DOMAIN person_id_map),
     faculty_inserted |-> faculty_count,
     qualifications_inserted |-> qual_count,
     total_rows |-> Len(df)]

\* session.rollback(): what the transaction staged is dropped
rollback(staged) == EmptySession

\* A commit that left in the table the rows of the transaction alone
persisted_replaces(rows, staged) == staged

\* session.commit(): the inserted rows join the rows of the table
persisted(rows, staged) == rows \cup staged

commit ==
    /\ pc = "commit"
    /\ \E db_ok \in BOOLEAN :
        IF ~db_ok
        THEN /\ raise("Database error occurred.", "DatabaseError", 500)
             /\ UNCHANGED << tables, session, response >>
        ELSE /\ person' = persisted(person, session.person)
             /\ faculty' = persisted(faculty, session.faculty)
             /\ designation' = persisted(designation, session.designation)
             /\ qualification' = persisted(qualification, session.qualification)
             /\ session' = EmptySession
             /\ response' = create_success_response(result_data)
             /\ pc' = "returned"
             /\ raised' = NoError
    /\ UNCHANGED << person_seq, designation_seq, call_vars, function_vars, component_vars, combined_df,
                    designation_cache, person_id_map, new_faculties, faculty_count,
                    qual_count >>

\* except CSVUploadError / IntegrityError / DatabaseError / Exception
except ==
    /\ pc = "except"
    /\ session' = rollback(session)
    /\ response' = create_error_response(raised.message, raised.status_code)
    /\ pc' = "returned"
    /\ UNCHANGED << tables, person_seq, designation_seq, call_vars, function_vars, component_vars, combined_df,
                    designation_cache, person_id_map, new_faculties, faculty_count,
                    qual_count, raised >>

Next ==
    \/ upload_csv(SourceRows, MaxRows)
    \/ database_operations(SourceRows, MaxRows)
    \/ handle_designations
    \/ handle_persons
    \/ handle_faculty
    \/ handle_qualifications
    \/ commit
    \/ except

Spec == Init /\ [][Next]_vars

\* The same program on tables of plain rows only
NextPlain ==
    \/ upload_csv(PlainRows, MaxRows)
    \/ database_operations(PlainRows, MaxRows)
    \/ handle_designations
    \/ handle_persons
    \/ handle_faculty
    \/ handle_qualifications
    \/ commit
    \/ except

SpecPlain == Init /\ [][NextPlain]_vars

\* The same program on longer tables of rows that differ in Email and CNIC only
NextTrim ==
    \/ upload_csv(TrimRows, MaxTrimRows)
    \/ database_operations(TrimRows, MaxTrimRows)
    \/ handle_designations
    \/ handle_persons
    \/ handle_faculty
    \/ handle_qualifications
    \/ commit
    \/ except

SpecTrim == Init /\ [][NextTrim]_vars

\* The same program on tables whose rows may carry a qualification title
NextQual ==
    \/ upload_csv(QualRows, MaxRows)
    \/ database_operations(QualRows, MaxRows)
    \/ handle_designations
    \/ handle_persons
    \/ handle_faculty
    \/ handle_qualifications
    \/ commit
    \/ except

SpecQual == Init /\ [][NextQual]_vars

-----------------------------------------------------------------------------
(* Person.cnic (models/person_model.py): the property over the column cnic  *)

\* fernet.encrypt(value): a token, which is never the text it encrypts
encrypt(value) == << "#" >> \o value

\* fernet.decrypt(token): InvalidToken is raised on a text that is no token
decrypt(token) ==
    IF token # << >> /\ Head(token) = "#"
    THEN [raised |-> FALSE, value |-> Tail(token)]
    ELSE [raised |-> TRUE, value |-> NULL]

\* @cnic.setter: the value of the column, fernet telling whether FERNET_KEY is set
cnic_setter(value, fernet) ==
    IF value = NULL THEN NULL
    ELSE IF ~fernet THEN value
    ELSE encrypt(value)

\* @property cnic: what reading Person.cnic gives for a stored column value
cnic_getter(stored, fernet) ==
    IF stored = NULL THEN [raised |-> FALSE, value |-> NULL]
    ELSE IF ~fernet THEN [raised |-> FALSE, value |-> stored]
    ELSE decrypt(stored)

-----------------------------------------------------------------------------
(* QualificationDataPipeline.extract_qualifications                        *)
(* (utils/qualification_details.py), called on one row                     *)

\* term in col.lower()
contains(text, term) ==
    \E i \in 1..(Len(text) - Len(term) + 1) : SubSeq(text, i, i + Len(term) - 1) = term

DegreeTerms == {<< "d", "e", "g", "r", "e", "e" >>, << "q", "u", "a", "l", "i", "f", "i", "c", "a", "t", "i", "o", "n" >>, << "e", "d", "u", "c", "a", "t", "i", "o", "n" >>}
FieldTerms == {<< "f", "i", "e", "l", "d" >>, << "m", "a", "j", "o", "r" >>, << "s", "u", "b", "j", "e", "c", "t" >>,
               << "s", "p", "e", "c", "i", "a", "l", "i", "z", "a", "t", "i", "o", "n" >>}
InstitutionTerms == {<< "i", "n", "s", "t", "i", "t", "u", "t", "i", "o", "n" >>, << "u", "n", "i", "v", "e", "r", "s", "i", "t", "y" >>,
                     << "c", "o", "l", "l", "e", "g", "e" >>, << "s", "c", "h", "o", "o", "l" >>}
CountryTerms == {<< "c", "o", "u", "n", "t", "r", "y" >>, << "n", "a", "t", "i", "o", "n" >>}
YearTerms == {<< "y", "e", "a", "r" >>, << "d", "a", "t", "e" >>, << "c", "o", "m", "p", "l", "e", "t", "i", "o", "n" >>,
              << "g", "r", "a", "d", "u", "a", "t", "i", "o", "n" >>}

\* The headers of the qualification columns, in the order of the file (row.index)
QualificationColumns ==
    << << "Q", "u", "a", "l", "i", "f", "i", "c", "a", "t", "i", "o", "n", " ", "1" >>,
       << "U", "n", "i", "v", "e", "r", "s", "i", "t", "y", " ", "1" >>,
       << "C", "o", "u", "n", "t", "r", "y", " ", "1" >>,
       << "Y", "e", "a", "r", " ", "1" >>,
       << "Q", "u", "a", "l", "i", "f", "i", "c", "a", "t", "i", "o", "n", " ", "2" >>,
       << "U", "n", "i", "v", "e", "r", "s", "i", "t", "y", " ", "2" >>,
       << "C", "o", "u", "n", "t", "r", "y", " ", "2" >>,
       << "Y", "e", "a", "r", " ", "2" >> >>

\* [col for col in row.index if any(term in col.lower() for term in terms)],
\* as column numbers
matching_columns(columns, terms) ==
    LET matches(k) == \E term \in terms : contains(lower(columns[k]), term)
    IN  SelectSeq([k \in 1..Len(columns) |-> k], matches)

\* pd.isna(value) or value == "" or value == "N/A"
is_empty(value) == value = NULL \/ value = NA

\* The first non-empty cell among the columns cols, None when there is none
RECURSIVE first_filled(_, _)
first_filled(row, cols) ==
    IF cols = << >> THEN NULL
    ELSE IF ~is_empty(row[Head(cols)]) THEN row[Head(cols)]
    ELSE first_filled(row, Tail(cols))

extract_institution(row, columns) ==
    first_filled(row, matching_columns(columns, InstitutionTerms))

extract_country(row, columns) ==
    first_filled(row, matching_columns(columns, CountryTerms))

Digits == {"0", "1", "2", "3", "4", "5", "6", "7", "8", "9"}

\* Where the pattern (19|20)\d{2} matches in the text
year_matches(text) ==
    {i \in 1..(Len(text) - 3) :
        /\ SubSeq(text, i, i + 1) \in {<< "1", "9" >>, << "2", "0" >>}
        /\ text[i + 2] \in Digits /\ text[i + 3] \in Digits}

\* int(matches[0]): re.findall returns the text of the group (19|20) of each
\* match, not the whole match
first_group(text) ==
    LET i == CHOOSE m \in year_matches(text) : \A n \in year_matches(text) : m <= n
    IN  IF text[i] = "1" THEN 19 ELSE 20

\* The first non-empty year column where the pattern matches gives the year
RECURSIVE extract_year_from(_, _)
extract_year_from(row, cols) ==
    IF cols = << >> THEN NULL
    ELSE IF ~is_empty(row[Head(cols)]) /\ year_matches(row[Head(cols)]) # {}
         THEN << first_group(row[Head(cols)]) >>
         ELSE extract_year_from(row, Tail(cols))

extract_year(row, columns) ==
    extract_year_from(row, matching_columns(columns, YearTerms))

IN_SEPARATOR == << " ", "i", "n", " " >>

\* Where " in " stands in the text
in_positions(text) ==
    {i \in 1..(Len(text) - 3) : SubSeq(text, i, i + 3) = IN_SEPARATOR}

\* str(degree_value).split(" in "): parts[1], None when there is one part only
second_part(text) ==
    IF in_positions(text) = {} THEN NULL
    ELSE LET first == CHOOSE m \in in_positions(text) :
                          \A n \in in_positions(text) : m <= n
             rest == SubSeq(text, first + 4, Len(text))
         IN  IF in_positions(rest) = {} THEN rest
             ELSE SubSeq(rest, 1, (CHOOSE m \in in_positions(rest) :
                                      \A n \in in_positions(rest) : m <= n) - 1)

extract_field(degree_value, row, columns) ==
    LET from_columns == first_filled(row, matching_columns(columns, FieldTerms))
    IN  IF from_columns # NULL THEN from_columns ELSE second_part(degree_value)

\* One dict per non-empty degree column; col is the number of that column
extract_qualifications(row, columns, person_id) ==
    LET filled(k) == ~is_empty(row[k])
        degree_columns == SelectSeq(matching_columns(columns, DegreeTerms), filled)
    IN  [n \in 1..Len(degree_columns) |->
            [person_id |-> person_id,
             degree |-> row[degree_columns[n]],
             field_of_study |-> extract_field(row[degree_columns[n]], row, columns),
             institution |-> extract_institution(row, columns),
             country |-> extract_country(row, columns),
             year_completed |-> extract_year(row, columns),
             col |-> degree_columns[n]]]

\* The rows extract_qualifications is called on: one cell per column
QualificationRows ==
    {<< q1, u1, c1, y1, q2, u2, c2, y2 >> :
        q1 \in {NULL, << "M" >>, << "M", " ", "i", "n", " ", "Z" >>},
        u1 \in {NULL, << "X" >>}, c1 \in {NULL, << "P" >>},
        y1 \in {NULL, << "2", "0", "1", "5" >>},
        q2 \in {NULL, << "D" >>},
        u2 \in {NULL, << "Y" >>}, c2 \in {NULL, << "K" >>},
        y2 \in {NULL, << "1", "9", "9", "9" >>}}

InitExtract ==
    /\ InitProgram
    /\ designation = {}
    /\ args \in [fn : {"extract_qualifications"}, row : QualificationRows, person_id : {1}]
    /\ returned = NoCall

call_extract_qualifications ==
    /\ args.fn = "extract_qualifications" /\ returned = NoCall
    /\ returned' = [fn |-> args.fn,
                    value |-> extract_qualifications(args.row, QualificationColumns,
                                                     args.person_id)]
    /\ UNCHANGED << tables, person_seq, designation_seq, session, call_vars, pc,
                    combined_df, designation_cache, person_id_map, new_faculties,
                    faculty_count, qual_count, raised, response, args,
                    component_vars >>

NextExtract == call_extract_qualifications

SpecExtract == InitExtract /\ [][NextExtract]_vars

-----------------------------------------------------------------------------
(* The cleaning pipelines on a table given with its columns: a frame is    *)
(* [raised, columns, rows], each row a function from the columns to cells  *)

Frame(columns, rows) == [raised |-> FALSE, columns |-> columns, rows |-> rows]

\* An exception left the step
Raised == [raised |-> TRUE, columns |-> {}, rows |-> << >>]

\* The cells of a column
column_values(frame, column) == {frame.rows[i][column] : i \in DOMAIN frame.rows}

\* df[column] = df[column].apply(f), f given on the cells of the column
apply(frame, column, f) ==
    Frame(frame.columns,
          [i \in DOMAIN frame.rows |->
              [c \in frame.columns |->
                  IF c = column THEN f[frame.rows[i][c]] ELSE frame.rows[i][c]]])

\* The keys of PersonDataPipeline.column_mapping, of which three are followed
PersonColumns == {"Employee Name", "Sex", "No Of Dependents"}

\* df[available_columns].copy(), ValueError when no column matches
extract_columns(table, mapped) ==
    LET available == table.columns \cap mapped
    IN  IF available = {} THEN Raised
        ELSE Frame(available,
                   [i \in DOMAIN table.rows |-> [c \in available |-> table.rows[i][c]]])

\* str.split(): the words of a text
RECURSIVE words(_, _)
words(s, word) ==
    LET done == IF word = << >> THEN << >> ELSE << word >>
    IN  IF s = << >> THEN done
        ELSE IF Head(s) = " " THEN done \o words(Tail(s), << >>)
        ELSE words(Tail(s), Append(word, Head(s)))

\* ' '.join(parts)
RECURSIVE join_words(_)
join_words(parts) ==
    IF parts = << >> THEN << >>
    ELSE IF Len(parts) = 1 THEN parts[1]
    ELSE parts[1] \o << " " >> \o join_words(Tail(parts))

\* re.match(r'^[A-Z]\.$', part)
is_initial(part) == Len(part) = 2 /\ part[1] \in Range(UpperCase) /\ part[2] = "."

\* The loop of split_name over the parts from the i-th on
RECURSIVE split_parts(_, _, _)
split_parts(parts, i, first_name_parts) ==
    IF i > Len(parts) THEN [first |-> first_name_parts, last |-> << >>]
    ELSE IF \/ is_initial(parts[i])
            \/ (i = 1 /\ Len(parts[i]) = 1)
            \/ (i = 1 /\ Len(parts[i]) > 1 /\ parts[i][Len(parts[i])] = ".")
            \/ first_name_parts = << >>
            \/ Len(first_name_parts) < 2
         THEN split_parts(parts, i + 1, Append(first_name_parts, parts[i]))
         ELSE [first |-> first_name_parts, last |-> SubSeq(parts, i, Len(parts))]

\* A split that keeps the first and the last token alone
split_name_outer(name) ==
    LET parts == words(name, << >>)
    IN  IF name = NULL \/ Len(parts) = 0 THEN [first |-> NULL, last |-> NULL]
        ELSE IF Len(parts) = 1 THEN [first |-> parts[1], last |-> NA]
        ELSE [first |-> parts[1], last |-> parts[Len(parts)]]

\* PersonDataPipeline.split_name: First Name and Last Name of a full name
split_name(name) ==
    LET parts == words(name, << >>)
        split == split_parts(parts, 1, << >>)
    IN  IF name = NULL \/ Len(parts) = 0 THEN [first |-> NULL, last |-> NULL]
        ELSE IF Len(parts) = 1 THEN [first |-> parts[1], last |-> NA]
        ELSE IF Len(parts) = 2 THEN [first |-> parts[1], last |-> parts[2]]
        ELSE IF split.last = << >>
             THEN [first |-> join_words(SubSeq(parts, 1, Len(parts) - 1)),
                   last |-> parts[Len(parts)]]
             ELSE [first |-> join_words(split.first), last |-> join_words(split.last)]

process_names(frame) ==
    IF "Employee Name" \notin frame.columns THEN frame
    ELSE LET columns == (frame.columns \ {"Employee Name"}) \cup {"First Name", "Last Name"}
         IN  Frame(columns,
                   [i \in DOMAIN frame.rows |->
                       [c \in columns |->
                           IF c = "First Name"
                           THEN split_name(frame.rows[i]["Employee Name"]).first
                           ELSE IF c = "Last Name"
                           THEN split_name(frame.rows[i]["Employee Name"]).last
                           ELSE frame.rows[i][c]]])

\* df['No Of Dependents'].fillna(0).astype(int): ValueError on a cell that is
\* no number
process_numeric_columns(frame) ==
    LET filled(x) == IF x = NULL THEN << 0 >> ELSE x
    IN  IF "No Of Dependents" \notin frame.columns THEN frame
        ELSE IF \E i \in DOMAIN frame.rows :
                    ~is_number(filled(frame.rows[i]["No Of Dependents"]))
        THEN Raised
        ELSE apply(frame, "No Of Dependents",
                   [x \in column_values(frame, "No Of Dependents") |-> filled(x)])

\* final_column_mapping, for the columns followed
final_column_name(c) ==
    CASE c = "First Name" -> "First name"
      [] c = "Last Name" -> "Last name"
      [] c = "No Of Dependents" -> "No. of Dependendts"
      [] OTHER -> c

reorder_and_rename_columns(frame) ==
    LET old(c) == CHOOSE o \in frame.columns : final_column_name(o) = c
        columns == {final_column_name(c) : c \in frame.columns}
    IN  Frame(columns,
              [i \in DOMAIN frame.rows |-> [c \in columns |-> frame.rows[i][old(c)]]])

DATE_DEFAULT == << "1", "9", "0", "0", "-", "0", "1", "-", "0", "1" >>

\* PersonDataPipeline.fill_defaults, for the columns followed
person_default(c) ==
    CASE c = "No. of Dependendts" -> << 0 >>
      [] OTHER -> NA

\* df.fillna(value=fill_defaults): only the columns of the frame are filled
fill_defaults(frame, defaults) ==
    Frame(frame.columns,
          [i \in DOMAIN frame.rows |->
              [c \in frame.columns |-> fillna(frame.rows[i][c], defaults[c])]])

\* PersonDataPipeline.fill_missing_values: df['Last name'] and df['First name']
\* raise KeyError when the file had no Employee Name column
fill_missing_values(frame) ==
    LET filled == fill_defaults(frame, [c \in frame.columns |-> person_default(c)])
        missing(x) == x \in {NULL, NA}
        fix(row) ==
            LET last == IF missing(row["Last name"]) /\ ~missing(row["First name"])
                        THEN UNKNOWN ELSE row["Last name"]
                first == IF missing(row["First name"]) /\ ~missing(last)
                         THEN UNKNOWN ELSE row["First name"]
            IN  [c \in frame.columns |->
                    IF c = "Last name" THEN last
                    ELSE IF c = "First name" THEN first ELSE row[c]]
    IN  IF {"Last name", "First name"} \subseteq frame.columns
        THEN Frame(frame.columns, [i \in DOMAIN filled.rows |-> fix(filled.rows[i])])
        ELSE Raised

\* The result dict of process_pipeline: any exception of a step gives success False
pipeline_result(frame) ==
    IF frame.raised THEN [success |-> FALSE, columns |-> {}, cleaned_data |-> << >>]
    ELSE [success |-> TRUE, columns |-> frame.columns, cleaned_data |-> frame.rows]

\* PersonDataPipeline.process_pipeline on a loaded table
\* (a step is skipped once a step before it has raised)
person_pipeline(table) ==
    LET extracted == extract_columns(table, PersonColumns)
        named == IF extracted.raised THEN extracted ELSE process_names(extracted)
        numbered == IF named.raised THEN named ELSE process_numeric_columns(named)
        renamed == IF numbered.raised THEN numbered
                   ELSE reorder_and_rename_columns(numbered)
        filled == IF renamed.raised THEN renamed ELSE fill_missing_values(renamed)
    IN  pipeline_result(filled)

\* The keys of FacultyDataPipeline.column_mapping, of which four are followed
FacultyColumns == {"Code", "Title", "Status", "Date of Joining"}

process_code_column(frame) ==
    IF "Code" \in frame.columns
    THEN apply(frame, "Code", [x \in column_values(frame, "Code") |-> to_int(x)])
    ELSE frame

\* A text that pd.to_datetime reads with format '%Y-%m-%d'
is_iso_date(s) ==
    /\ Len(s) = 10
    /\ s[5] = "-" /\ s[8] = "-"
    /\ \A i \in {1, 2, 3, 4, 6, 7, 9, 10} : s[i] \in Digits

\* FacultyDataPipeline.clean_date: the date as %Y-%m-%d, None for a missing cell
\* and for a text that neither parse reads (the texts followed hold no digit)
faculty_clean_date(date_str) == IF is_iso_date(date_str) THEN date_str ELSE NULL

faculty_process_dates(frame) ==
    IF "Date of Joining" \in frame.columns
    THEN apply(frame, "Date of Joining",
               [x \in column_values(frame, "Date of Joining") |-> faculty_clean_date(x)])
    ELSE frame

\* FacultyDataPipeline.fill_defaults, for the columns followed
faculty_default(c) ==
    CASE c = "Date of Joining" -> DATE_DEFAULT
      [] OTHER -> NA

faculty_fill_missing_values(frame) ==
    fill_defaults(frame, [c \in frame.columns |-> faculty_default(c)])

\* df[col].replace(['', 'N/A', None], 'Unknown').fillna('Unknown') for Title
unknown_titles(frame) ==
    LET replace(x) == IF x \in {NULL, NA} THEN UNKNOWN ELSE x
    IN  IF "Title" \in frame.columns
        THEN apply(frame, "Title", [x \in column_values(frame, "Title") |-> replace(x)])
        ELSE frame

\* FacultyDataPipeline.process_pipeline on a loaded table
\* (a step is skipped once a step before it has raised)
faculty_pipeline(table) ==
    LET extracted == extract_columns(table, FacultyColumns)
        titled(frame) == unknown_titles(faculty_fill_missing_values(
                             process_code_column(faculty_process_dates(frame))))
    IN  pipeline_result(IF extracted.raised THEN extracted ELSE titled(extracted))

\* The keys of DesignationDataPipeline.column_mapping
DesignationColumns == {"Academic Designation", "Administrative Designation"}

\* DesignationDataPipeline.column_mapping
designation_column_name(c) ==
    CASE c = "Academic Designation" -> "academic_designation"
      [] c = "Administrative Designation" -> "administrative_designation"
      [] OTHER -> c

\* extract_designation_columns: the mapped columns of the table under their
\* new names, or an empty table with both columns when the table has none
extract_designation_columns(table) ==
    LET available == table.columns \cap DesignationColumns
        old(c) == CHOOSE o \in available : designation_column_name(o) = c
        columns == {designation_column_name(c) : c \in available}
    IN  IF available = {}
        THEN Frame({designation_column_name(c) : c \in DesignationColumns}, << >>)
        ELSE Frame(columns,
                   [i \in DOMAIN table.rows |-> [c \in columns |-> table.rows[i][old(c)]]])

upper_char(c) ==
    IF \E i \in DOMAIN LowerCase : LowerCase[i] = c
    THEN UpperCase[CHOOSE i \in DOMAIN LowerCase : LowerCase[i] = c]
    ELSE c

is_letter(c) == c \in Range(UpperCase) \cup Range(LowerCase)

\* str.title(): a letter after a letter in lower case, any other letter in upper case
title(s) ==
    [i \in 1..Len(s) |->
        IF i > 1 /\ is_letter(s[i - 1]) THEN lower_char(s[i]) ELSE upper_char(s[i])]

\* The values clean_designations replaces by 'Unknown'
UnknownValues ==
    { << >>, << "N", "a", "n" >>, << "N", "o", "n", "e" >>, NA, << "N", "a" >>, UNKNOWN }

\* clean_designations, on one cell
clean_designation(value) ==
    LET titled == title(strip(fillna(value, UNKNOWN)))
    IN  IF titled \in UnknownValues THEN UNKNOWN ELSE titled

clean_designations(frame) ==
    Frame(frame.columns,
          [i \in DOMAIN frame.rows |->
              [c \in frame.columns |-> clean_designation(frame.rows[i][c])]])

\* DesignationDataPipeline.process_pipeline on a loaded table
designation_pipeline(table) ==
    pipeline_result(clean_designations(extract_designation_columns(table)))

\* The tables given to the pipelines: one or two rows over any of the columns
\* followed, a column of the file that no pipeline maps, or no column at all
MaxTableRows == 2

TEXT == << "x", "y" >>

Cells(c) ==
    CASE c = "Employee Name" -> {NULL, << "A", "l", " ", "B", "o" >>, << "A", "l" >>}
      [] c = "Sex" -> {NULL, << "M", "a", "l", "e" >>}
      [] c = "No Of Dependents" -> {NULL, << 2 >>, TEXT}
      [] c = "Code" -> {NULL, << 7 >>, TEXT}
      [] c = "Title" -> {NULL, << "D", "r" >>}
      [] c = "Status" -> {NULL, << "A", "c", "t", "i", "v", "e" >>}
      [] c = "Date of Joining" ->
            {NULL, << "2", "0", "2", "0", "-", "0", "1", "-", "0", "2" >>, TEXT}
      [] c = "Academic Designation" ->
            {NULL, << "l", "e", "c", " " >>, << "n", "/", "a" >>}
      [] c = "Administrative Designation" -> {NULL, << "H", "O", "D" >>}
      [] OTHER -> {NULL}

TableRows(columns) ==
    {r \in [columns -> UNION {Cells(c) : c \in columns}] :
        \A c \in columns : r[c] \in Cells(c)}

TablesOver(mapped) ==
    UNION {
        UNION { [columns : {columns}, rows : [1..n -> TableRows(columns)]] :
                n \in 1..MaxTableRows }
        : columns \in SUBSET mapped }

InitPipeline ==
    /\ InitProgram
    /\ designation = {}
    /\ args \in [fn : {"person_pipeline"}, table : TablesOver(PersonColumns)]
           \cup [fn : {"faculty_pipeline"}, table : TablesOver(FacultyColumns)]
           \cup [fn : {"designation_pipeline"}, table : TablesOver(DesignationColumns)]
    /\ returned = NoCall

call_person_pipeline ==
    /\ args.fn = "person_pipeline"
    /\ returned = NoCall
    /\ returned' = [fn |-> "person_pipeline"] @@ person_pipeline(args.table)
    /\ UNCHANGED << tables, person_seq, designation_seq, session, call_vars, pc,
                    combined_df, designation_cache, person_id_map, new_faculties,
                    faculty_count, qual_count, raised, response, args,
                    component_vars >>

call_faculty_pipeline ==
    /\ args.fn = "faculty_pipeline"
    /\ returned = NoCall
    /\ returned' = [fn |-> "faculty_pipeline"] @@ faculty_pipeline(args.table)
    /\ UNCHANGED << tables, person_seq, designation_seq, session, call_vars, pc,
                    combined_df, designation_cache, person_id_map, new_faculties,
                    faculty_count, qual_count, raised, response, args,
                    component_vars >>

call_designation_pipeline ==
    /\ args.fn = "designation_pipeline"
    /\ returned = NoCall
    /\ returned' = [fn |-> "designation_pipeline"] @@ designation_pipeline(args.table)
    /\ UNCHANGED << tables, person_seq, designation_seq, session, call_vars, pc,
                    combined_df, designation_cache, person_id_map, new_faculties,
                    faculty_count, qual_count, raised, response, args,
                    component_vars >>

NextPipeline ==
    call_person_pipeline \/ call_faculty_pipeline \/ call_designation_pipeline

SpecPipeline == InitPipeline /\ [][NextPipeline]_vars

\* split_name and clean_email called on one cell: names of up to MaxTokens
\* tokens, with and without initials, and email cells of up to MaxEmailLen
\* characters
MaxTokens == 4

MaxEmailLen == 4

NameTokens == { << "A", "b" >>, << "C", "." >>, << "D" >>, << "E", "f", "." >> }

Names ==
    {NULL, << " " >>, << " ", "A", "b", " ", " ", "D", " " >>}
        \cup UNION { {join_words(tokens) : tokens \in [1..n -> NameTokens]} :
                     n \in 1..MaxTokens }

EmailChars == {"a", "B", " ", ";", "/", ","}

Emails == UNION { [1..n -> EmailChars] : n \in 0..MaxEmailLen }

InitCell ==
    /\ InitProgram
    /\ designation = {}
    /\ args \in [fn : {"split_name"}, name : Names]
           \cup [fn : {"clean_email"}, email : Emails]
    /\ returned = NoCall

call_split_name ==
    /\ args.fn = "split_name"
    /\ returned = NoCall
    /\ returned' = [fn |-> "split_name"] @@ split_name(args.name)
    /\ UNCHANGED << tables, person_seq, designation_seq, session, call_vars, pc,
                    combined_df, designation_cache, person_id_map, new_faculties,
                    faculty_count, qual_count, raised, response, args,
                    component_vars >>

call_clean_email ==
    /\ args.fn = "clean_email"
    /\ returned = NoCall
    /\ returned' = [fn |-> "clean_email", value |-> clean_email(args.email)]
    /\ UNCHANGED << tables, person_seq, designation_seq, session, call_vars, pc,
                    combined_df, designation_cache, person_id_map, new_faculties,
                    faculty_count, qual_count, raised, response, args,
                    component_vars >>

NextCell == call_split_name \/ call_clean_email

SpecCell == InitCell /\ [][NextCell]_vars

-----------------------------------------------------------------------------
(* save_faculty_track_decision (database/faculty_track_decision.py): each  *)
(* caller has its own session; a step is one await of the function         *)

MaxDecisions == 3

Callers == {1, 2}

\* The upload, the cleaning functions called on their own and the components
\* other than this one
not_decision_vars ==
    << tables, person_seq, designation_seq, session, call_vars, pc, combined_df,
       designation_cache, person_id_map, new_faculties, faculty_count, qual_count,
       raised, response, function_vars, connect_vars, bot_vars >>

IdleDecision ==
    [pc |-> "idle", faculty_id |-> 0, track_id |-> 0, status |-> "", remarks |-> "",
     ay_id |-> NoId, entity |-> NoId, error |-> ""]

\* The academic years a database may hold
AcademicYears ==
    { {},
      {[id |-> 1, is_current |-> FALSE, start_date |-> 1]},
      {[id |-> 1, is_current |-> TRUE, start_date |-> 1]},
      {[id |-> 1, is_current |-> TRUE, start_date |-> 1],
       [id |-> 2, is_current |-> TRUE, start_date |-> 2]} }

\* The columns of FacultyTrackAssignment that the function reads or that a
\* decision is about; track_level_id and submitted_on follow track_id
AssignmentRow(id, faculty_id, academic_year_id, track_id) ==
    [id |-> id, faculty_id |-> faculty_id, academic_year_id |-> academic_year_id,
     track_id |-> track_id, submission_status |-> "draft",
     approved_by |-> 9, approved_on |-> 3]

\* The assignments a database may hold before any decision
SeedAssignments ==
    { {}, {AssignmentRow(1, 1, 1, 1)}, {AssignmentRow(1, 1, 2, 1)} }

InitDecisions ==
    /\ InitUpload
    /\ designation = {}
    /\ args = NoCall /\ returned = NoCall
    /\ academic_year \in AcademicYears
    /\ faculty_track_assignment \in SeedAssignments
    /\ assignment_seq = 2
    /\ decisions = [c \in Callers |-> IdleDecision]
    /\ decision_log = << >>
    /\ NoEngine /\ NoChat

upper(s) == [i \in 1..Len(s) |-> upper_char(s[i])]

\* _map_decision_to_status: (decision or "").strip().upper() == "APPROVED"
map_decision_to_status(decision) ==
    IF upper(strip(decision)) = << "A", "P", "P", "R", "O", "V", "E", "D" >>
    THEN "approved" ELSE "rejected"

\* _resolve_academic_year_id: the current year, the one of latest start_date if
\* several are current; ValueError without a current year
resolve_academic_year_id(years) ==
    LET current_years == {y \in years : y.is_current}
        chosen == CHOOSE y \in current_years :
                      \A z \in current_years : z.start_date <= y.start_date
    IN  IF current_years = {} THEN [raised |-> TRUE, id |-> NoId]
        ELSE [raised |-> FALSE, id |-> chosen.id]

\* The decisions a caller may bring
Decisions == { << "a", "p", "p", "r", "o", "v", "e", "d", " " >>, << "n", "o" >> }

\* A call ends: with its entity or with the exception that leaves the function
ends(c, call) ==
    /\ decisions' = [decisions EXCEPT ![c] = IdleDecision]
    /\ decision_log' = Append(decision_log, [call EXCEPT !.pc = "ended"])

in_progress == {c \in Callers : decisions[c].pc # "idle"}

\* The call and its first await: ay_id = await _resolve_academic_year_id(session)
save_faculty_track_decision(c) ==
    /\ decisions[c].pc = "idle"
    /\ Len(decision_log) + Cardinality(in_progress) < MaxDecisions
    /\ \E track_id \in {1, 2}, decision \in Decisions :
        LET year == resolve_academic_year_id(academic_year)
            call == [IdleDecision EXCEPT !.faculty_id = 1, !.track_id = track_id,
                                         !.status = map_decision_to_status(decision),
                                         !.remarks = IF track_id = 1 THEN "one" ELSE "two",
                                         !.ay_id = year.id]
        IN  IF year.raised
            THEN ends(c, [call EXCEPT !.error = "ValueError"])
            ELSE /\ decisions' = [decisions EXCEPT ![c] = [call EXCEPT !.pc = "select"]]
                 /\ UNCHANGED decision_log
    /\ UNCHANGED << academic_year, faculty_track_assignment, assignment_seq,
                    not_decision_vars >>

\* _upsert: res.scalars().first() of the select by faculty_id and academic_year_id,
\* then the branch on entity. FacultyTrackAssignment maps no attribute remarks
\* or status, so the constructor call raises TypeError, which no except clause
\* of the function catches; on a row that exists the two assignments set plain
\* attributes of the object and only the mapped columns are queued for UPDATE.
upsert(c) ==
    /\ decisions[c].pc = "select"
    /\ LET call == decisions[c]
           found == {r \in faculty_track_assignment :
                        r.faculty_id = call.faculty_id
                            /\ r.academic_year_id = call.ay_id}
       IN  IF found = {}
           THEN ends(c, [call EXCEPT !.error = "TypeError"])
           ELSE /\ \E r \in found :
                     decisions' = [decisions EXCEPT ![c] =
                                      [call EXCEPT !.pc = "commit", !.entity = r.id]]
                /\ UNCHANGED decision_log
    /\ UNCHANGED << academic_year, faculty_track_assignment, assignment_seq,
                    not_decision_vars >>

\* await session.commit(); await session.refresh(entity); return entity: the
\* UPDATE of the mapped columns set by _upsert
commit_decision(c) ==
    /\ decisions[c].pc = "commit"
    /\ faculty_track_assignment' =
           {IF r.id = decisions[c].entity
            THEN [r EXCEPT !.track_id = decisions[c].track_id] ELSE r :
                r \in faculty_track_assignment}
    /\ ends(c, decisions[c])
    /\ UNCHANGED << academic_year, assignment_seq, not_decision_vars >>

NextDecisions ==
    \E c \in Callers :
        save_faculty_track_decision(c) \/ upsert(c) \/ commit_decision(c)

SpecDecisions == InitDecisions /\ [][NextDecisions]_vars

-----------------------------------------------------------------------------
(* database/connect.py: the cached engine and session maker                *)

MaxEngineCalls == 4

\* The upload, the cleaning functions called on their own and the components
\* other than this one
not_connect_vars ==
    << tables, person_seq, designation_seq, session, call_vars, pc, combined_df,
       designation_cache, person_id_map, new_faculties, faculty_count, qual_count,
       raised, response, function_vars, decision_vars, bot_vars >>

InitConnect ==
    /\ InitUpload
    /\ designation = {}
    /\ args = NoCall /\ returned = NoCall
    /\ NoDecisions /\ NoChat
    /\ _async_engine = NoId /\ _async_session_maker = NoMaker
    /\ engines \in [created : {0}, disposed : {{}}, disposing : {<< >>},
                    database_url : BOOLEAN]
    /\ engine_log = << >>

\* Calls made so far, the dispose calls waiting at their await included
engine_calls == Len(engine_log) + Len(engines.disposing)

\* The body of get_async_engine: the cached engine, created at the first call;
\* ValueError when DATABASE_URL is not set
async_engine ==
    IF _async_engine # NoId THEN [raised |-> FALSE, engine |-> _async_engine, created |-> FALSE]
    ELSE IF ~engines.database_url THEN [raised |-> TRUE, engine |-> NoId, created |-> FALSE]
    ELSE [raised |-> FALSE, engine |-> engines.created + 1, created |-> TRUE]

get_async_engine ==
    /\ engine_calls < MaxEngineCalls
    /\ LET got == async_engine IN
        /\ _async_engine' = got.engine
        /\ engines' = IF got.created THEN [engines EXCEPT !.created = @ + 1] ELSE engines
        /\ engine_log' = Append(engine_log,
                                [fn |-> "get_async_engine", raised |-> got.raised,
                                 engine |-> got.engine])
    /\ UNCHANGED << _async_session_maker, not_connect_vars >>

\* The cached session maker, made on get_async_engine() at the first call
get_async_session_maker ==
    /\ engine_calls < MaxEngineCalls
    /\ LET got == async_engine
           made == _async_session_maker = NoMaker
       IN  IF ~made
           THEN /\ engine_log' = Append(engine_log,
                                        [fn |-> "get_async_session_maker", raised |-> FALSE,
                                         engine |-> _async_session_maker.bind])
                /\ UNCHANGED << _async_engine, _async_session_maker, engines >>
           ELSE /\ _async_engine' = got.engine
                /\ engines' = IF got.created THEN [engines EXCEPT !.created = @ + 1]
                              ELSE engines
                /\ _async_session_maker' =
                       IF got.raised THEN NoMaker ELSE [bind |-> got.engine]
                /\ engine_log' = Append(engine_log,
                                        [fn |-> "get_async_session_maker",
                                         raised |-> got.raised, engine |-> got.engine])
    /\ UNCHANGED not_connect_vars

\* dispose_engine up to its await: nothing to do without a cached engine,
\* else await _async_engine.dispose()
dispose_engine ==
    /\ engine_calls < MaxEngineCalls
    /\ IF _async_engine = NoId
       THEN /\ engine_log' = Append(engine_log,
                                    [fn |-> "dispose_engine", raised |-> FALSE,
                                     engine |-> NoId])
            /\ UNCHANGED engines
       ELSE /\ engines' = [engines EXCEPT !.disposed = @ \cup {_async_engine},
                                          !.disposing = Append(@, _async_engine)]
            /\ UNCHANGED engine_log
    /\ UNCHANGED << _async_engine, _async_session_maker, not_connect_vars >>

\* dispose_engine after its await: _async_engine = None
dispose_engine_resumes ==
    /\ engines.disposing # << >>
    /\ \E k \in DOMAIN engines.disposing :
        /\ engines' = [engines EXCEPT !.disposing =
                          SubSeq(@, 1, k - 1) \o SubSeq(@, k + 1, Len(@))]
        /\ engine_log' = Append(engine_log,
                                [fn |-> "dispose_engine", raised |-> FALSE,
                                 engine |-> engines.disposing[k]])
    /\ _async_engine' = NoId
    /\ UNCHANGED << _async_session_maker, not_connect_vars >>

NextConnect ==
    \/ get_async_engine
    \/ get_async_session_maker
    \/ dispose_engine
    \/ dispose_engine_resumes

SpecConnect == InitConnect /\ [][NextConnect]_vars

-----------------------------------------------------------------------------
(* HR_AI.generate (bot/hr.py): the tasks of one event loop; a step runs    *)
(* from one await of the function to the next                              *)

MaxGenerateCalls == 3

Tasks == {1, 2}

SessionIds == {"default", "s2"}

UserMessages == {"m1", "m2"}

\* The upload, the cleaning functions called on their own and the components
\* other than this one
not_bot_vars ==
    << tables, person_seq, designation_seq, session, call_vars, pc, combined_df,
       designation_cache, person_id_map, new_faculties, faculty_count, qual_count,
       raised, response, function_vars, decision_vars, connect_vars >>

IdleCall ==
    [pc |-> "idle", call |-> 0, session_id |-> "", user_message |-> "",
     memory |-> "", history_read |-> {}, outcome |-> ""]

InitChat ==
    /\ InitUpload
    /\ designation = {}
    /\ args = NoCall /\ returned = NoCall
    /\ NoDecisions /\ NoEngine
    /\ session_memories = << >>
    /\ generate_calls = [t \in Tasks |-> IdleCall]
    /\ generate_log = << >>

generating == {t \in Tasks : generate_calls[t].pc # "idle"}

\* _get_memory: session_memories with a fresh memory for a session id it does
\* not hold yet
get_memory(memories, session_id) ==
    IF session_id \in DOMAIN memories THEN memories
    ELSE [s \in DOMAIN memories \cup {session_id} |->
             IF s = session_id THEN << >> ELSE memories[s]]

\* The text the model streams back to a call
full_response(call) == << "response to", call.call >>

\* A memory that took the user message alone
save_user_message(messages, call) ==
    Append(messages, [type |-> "human", content |-> call.user_message, call |-> call.call])

\* memory.chat_memory.add_user_message(user_message);
\* memory.chat_memory.add_ai_message(full_response)
save_messages(messages, call) ==
    messages \o << [type |-> "human", content |-> call.user_message, call |-> call.call],
                   [type |-> "ai", content |-> full_response(call), call |-> call.call] >>

\* A call ends, by its return or by the exception of the retrieval
returns(t, call, outcome) ==
    /\ generate_calls' = [generate_calls EXCEPT ![t] = IdleCall]
    /\ generate_log' = Append(generate_log, [call EXCEPT !.pc = "ended", !.outcome = outcome])

\* generate up to its first await: memory = self._get_memory(session_id), then
\* the retrieval runs in a thread
generate(t) ==
    /\ generate_calls[t].pc = "idle"
    /\ Len(generate_log) + Cardinality(generating) < MaxGenerateCalls
    /\ \E session_id \in SessionIds, user_message \in UserMessages :
        /\ session_memories' = get_memory(session_memories, session_id)
        /\ generate_calls' =
               [generate_calls EXCEPT ![t] =
                   [IdleCall EXCEPT !.pc = "retrieve",
                                    !.call = Len(generate_log) + Cardinality(generating) + 1,
                                    !.session_id = session_id,
                                    !.user_message = user_message,
                                    !.memory = session_id]]
    /\ UNCHANGED << generate_log, not_bot_vars >>

\* The retrieval is back: its exception leaves generate, else the contents are
\* built from the messages of the memory and the model is called in the executor
retrieved(t) ==
    /\ generate_calls[t].pc = "retrieve"
    /\ \E ok \in BOOLEAN :
        IF ~ok THEN returns(t, generate_calls[t], "raised")
        ELSE /\ generate_calls' =
                    [generate_calls EXCEPT ![t].pc = "generate",
                                           ![t].history_read = {generate_calls[t].memory}]
             /\ UNCHANGED generate_log
    /\ UNCHANGED << session_memories, not_bot_vars >>

\* The stream is back: an exception gives "An error occurred." and saves nothing,
\* else the chunks are read and the two messages are saved, with no await on
\* the way
generated(t) ==
    /\ generate_calls[t].pc = "generate"
    /\ \E ok \in BOOLEAN :
        IF ~ok
        THEN /\ returns(t, generate_calls[t], "An error occurred.")
             /\ UNCHANGED session_memories
        ELSE /\ session_memories' =
                    [session_memories EXCEPT ![generate_calls[t].memory] =
                        save_messages(@, generate_calls[t])]
             /\ returns(t, generate_calls[t], "full_response")
    /\ UNCHANGED not_bot_vars

NextChat == \E t \in Tasks : generate(t) \/ retrieved(t) \/ generated(t)

SpecChat == InitChat /\ [][NextChat]_vars

-----------------------------------------------------------------------------
(* Properties                                                              *)

\* The rows a call has added to a committed table
added(table_name) == storage[table_name] \ before[table_name]

\* The cell of row i after the cleaning steps
cleaned(i) == combined_df[i]

\* C1: once an import of a well-formed file has returned, every row with an
\* email and a CNIC that is neither in storage nor on an earlier row of the
\* file has exactly one new Person row in storage.
C1_NewCnicRowInsertedOnce ==
    (pc = "returned" /\ df # << >>) =>
        \A i \in 1..Len(df) :
            ( /\ df[i].Email # NULL
              /\ df[i].CNIC # NULL
              /\ \A p \in before.person : strip(p.cnic) # strip(df[i].CNIC)
              /\ \A j \in 1..(i - 1) : strip(df[j].CNIC) # strip(df[i].CNIC) )
            => Cardinality({p \in added("person") : p.src = rows_before + i}) = 1

\* C2: when the table of the previous call is imported again, the call adds no
\* row to storage and reports processed = 0 and skipped = total_rows, every
\* skip with the reason "duplicate".
C2_ReimportReportsAllDuplicates ==
    (pc = "returned" /\ again) =>
        /\ storage = before
        /\ response.success
        /\ response.data.persons_processed = 0
        /\ "skipped" \in DOMAIN response.data
        /\ response.data.skipped = response.data.total_rows
        /\ "skipped_rows" \in DOMAIN response.data
        /\ \A k \in DOMAIN response.data.skipped_rows :
              response.data.skipped_rows[k].reason = "duplicate"

\* C3: when an insert of an import raised a uniqueness violation, the import
\* still returns its report and every row whose CNIC collides with nothing
\* (it is not the placeholder, not in storage, not on an earlier row) has its
\* Person persisted.
C3_ViolationRollsBackOnePerson ==
    (pc = "returned" /\ raised.cause = "IntegrityError") =>
        /\ response.success
        /\ \A i \in 1..Len(combined_df) :
              ( /\ cleaned(i).cnic # CNIC_DEFAULT
                /\ \A p \in before.person : p.cnic # cleaned(i).cnic
                /\ \A j \in 1..(i - 1) : cleaned(j).cnic # cleaned(i).cnic )
              => \E p \in person : p.src = rows_before + i

\* The Faculty candidates of the call that were rejected for their code alone:
\* the code is held by a stored Faculty or by a record accepted earlier in the
\* batch, and the university_email is held by none of them.
rejected_for_code ==
    LET to_create == faculties_to_create(combined_df, person_id_map,
                                         designation_cache, rows_before)
        rivals(f) == before.faculty \cup {g \in Range(new_faculties) : g.src < f.src}
    IN  {f \in Range(to_create) :
            /\ f \notin Range(new_faculties)
            /\ \E g \in rivals(f) : g.code = f.code
            /\ \A g \in rivals(f) : g.university_email # f.university_email}

\* C4: after a committed import, a row whose Faculty record was rejected for a
\* code collision has left no Person, Faculty or Qualification row in storage.
C4_CodeCollisionRejectsWholeRow ==
    (pc = "returned" /\ response.success) =>
        \A f \in rejected_for_code :
            /\ \A p \in added("person") : p.src # f.src
            /\ \A g \in added("faculty") : g.src # f.src
            /\ \A q \in added("qualification") : q.src # f.src

\* C5: a call that returns an error response leaves the committed tables as
\* they were when it started.
C5_ErrorResponsePersistsNothing ==
    (pc = "returned" /\ ~response.success) => storage = before

\* A failed call that had flushed a new Designation row before it failed
C5_Witness ==
    /\ pc = "returned" /\ ~response.success
    /\ raised.cause = "IntegrityError"
    /\ \E t \in DOMAIN designation_cache : designation_cache[t] \notin designation

\* C6: every committed import reports processed, skipped and total with
\* processed + skipped = total = the number of source rows, and lists one
\* entry per skipped row when skipped > 0.
C6_ReportCountsAddUp ==
    (pc = "returned" /\ response.success) =>
        /\ response.data.total_rows = Len(df)
        /\ "skipped" \in DOMAIN response.data
        /\ response.data.persons_processed + response.data.skipped
               = response.data.total_rows
        /\ response.data.skipped > 0 =>
               /\ "skipped_rows" \in DOMAIN response.data
               /\ Len(response.data.skipped_rows) = response.data.skipped

\* C7: when handle_persons has returned, a row (the first of its CNIC in the
\* batch) is staged as a Person exactly when its CNIC is neither missing, nor
\* the placeholder, nor the CNIC of a stored Person.
C7_PersonStagedUnlessCnicKnown ==
    pc = "handle_faculty" =>
        \A i \in 1..Len(combined_df) :
            (\A j \in 1..(i - 1) : cleaned(j).cnic # cleaned(i).cnic) =>
                LET skipped == \/ cleaned(i).cnic \in {NULL, CNIC_DEFAULT}
                               \/ \E p \in before.person : p.cnic = cleaned(i).cnic
                    staged == \E p \in session.person : p.src = rows_before + i
                IN  staged <=> ~skipped

\* C8: an import into empty storage of three rows with three emails, where the
\* CNIC of row 2 is the CNIC of row 1 up to surrounding blanks and the CNIC of
\* row 3 is another one, reports processed = 2 and skipped = 1 and persists the
\* Persons of rows 1 and 3 only.
C8_TrimmedCnicDuplicateSkipped ==
    ( /\ pc = "returned"
      /\ Len(df) = 3
      /\ before.person = {}
      /\ df[2].CNIC # df[1].CNIC
      /\ strip(df[2].CNIC) = strip(df[1].CNIC)
      /\ strip(df[3].CNIC) # strip(df[1].CNIC)
      /\ Cardinality({clean_email(df[i].Email) : i \in 1..3}) = 3 )
    => /\ response.success
       /\ response.data.persons_processed = 2
       /\ "skipped" \in DOMAIN response.data
       /\ response.data.skipped = 1
       /\ {p.src : p \in added("person")} = {rows_before + 1, rows_before + 3}

\* C9: the Faculty records handle_faculty accepts in one call have pairwise
\* distinct codes and university_emails, and none of them has the code or the
\* university_email of a Faculty row in storage.
C9_AcceptedFacultyKeysAreNew ==
    \A i \in DOMAIN new_faculties :
        /\ \A f \in before.faculty :
              /\ f.code # new_faculties[i].code
              /\ f.university_email # new_faculties[i].university_email
        /\ \A j \in 1..(i - 1) :
              /\ new_faculties[j].code # new_faculties[i].code
              /\ new_faculties[j].university_email # new_faculties[i].university_email

\* The designation titles that stand on two or more rows of the batch
shared_titles ==
    {combined_df[i].academic_designation : i \in
        {k \in 1..Len(combined_df) :
            \E j \in 1..Len(combined_df) :
                j # k /\ combined_df[j].academic_designation
                           = combined_df[k].academic_designation}}

\* After a committed import, title t has one new Designation row and the
\* Faculty rows inserted from its rows point to it.
created_once(t) ==
    /\ Cardinality({d \in added("designation") : d.title = t}) = 1
    /\ \A f \in added("faculty") :
          cleaned(f.src - rows_before).academic_designation = t =>
              \E d \in added("designation") : d.title = t /\ f.designation_id = d.id

C11_DesignationReusedByTitleAndType ==
    /\ \A d, e \in designation : (d.title = e.title /\ d.type = e.type) => d = e
    /\ \A f \in faculty :
          \A d \in designation : d.id = f.designation_id => d.type = "academic"
    /\ pc = "handle_persons" =>
          \A t \in DOMAIN designation_cache :
              LET same == {d \in before.designation : d.title = t /\ d.type = "academic"}
              IN  IF same # {} THEN designation_cache[t] \in same
                  ELSE designation_cache[t] \in session.designation

\* The qualification column groups of the file: the numbers of the title,
\* institution, country and year columns, and the category of the group
QualificationGroups ==
    {[title |-> 1, institution |-> 2, country |-> 3, year |-> 4,
      category |-> "Educational"],
     [title |-> 5, institution |-> 6, country |-> 7, year |-> 8,
      category |-> "Educational"]}

\* The records extract_qualifications returned for the group with title column k
records_of(k) == {n \in DOMAIN returned.value : returned.value[n].col = k}

\* C12: for every row and every qualification column group, no record is
\* emitted when the title cell of the group is empty, and exactly one record,
\* carrying the category label of the group, when it is not.
C12_OneLabelledRecordPerFilledGroup ==
    returned.fn = "extract_qualifications" =>
        \A g \in QualificationGroups :
            IF args.row[g.title] = NULL
            THEN records_of(g.title) = {}
            ELSE /\ Cardinality(records_of(g.title)) = 1
                 /\ \A n \in records_of(g.title) :
                       /\ "category" \in DOMAIN returned.value[n]
                       /\ returned.value[n].category = g.category

DigitChars == << "0", "1", "2", "3", "4", "5", "6", "7", "8", "9" >>

digit_value(c) == (CHOOSE n \in DOMAIN DigitChars : DigitChars[n] = c) - 1

\* The year written with four digits in a cell, None for an empty cell
written_year(cell) ==
    IF cell = NULL THEN NULL
    ELSE << 1000 * digit_value(cell[1]) + 100 * digit_value(cell[2])
            + 10 * digit_value(cell[3]) + digit_value(cell[4]) >>

\* C13: every record emitted for a column group carries the institution and
\* the country of the group's own columns, and as its year the 4-digit year
\* written in the group's year cell.
C13_RecordTakesValuesOfItsGroup ==
    returned.fn = "extract_qualifications" =>
        \A g \in QualificationGroups : \A n \in records_of(g.title) :
            /\ returned.value[n].institution = args.row[g.institution]
            /\ returned.value[n].country = args.row[g.country]
            /\ returned.value[n].year_completed = written_year(args.row[g.year])

\* C14: after a committed import, every person of a row with a qualification
\* title has exactly one Qualification row with that (person_id, title) in
\* storage, and importing the same table again adds no Qualification row.
C14_OneQualificationPerPersonAndTitle ==
    (pc = "returned" /\ response.success) =>
        /\ \A i \in 1..Len(df) : \A p \in person :
              (df[i].Qualification_1 # NULL /\ p.src = rows_before + i) =>
                  Cardinality({q \in qualification :
                      q.person_id = p.id /\ q.title = df[i].Qualification_1}) = 1
        /\ again => added("qualification") = {}

\* C15: with FERNET_KEY set, every Person row a committed import has added
\* stores in its cnic column something else than the CNIC of its row, and
\* reading Person.cnic of the row gives that CNIC back.
C15_ImportedCnicStoredEncrypted ==
    (pc = "returned" /\ response.success) =>
        \A p \in added("person") :
            /\ p.cnic # cleaned(p.src - rows_before).cnic
            /\ cnic_getter(p.cnic, TRUE) =
                   [raised |-> FALSE, value |-> cleaned(p.src - rows_before).cnic]

\* C16: in storage every Faculty row references exactly one Person row, and no
\* two Faculty rows reference the same Person.
C16_FacultyOneToOneWithPerson ==
    /\ \A f \in faculty : Cardinality({p \in person : p.id = f.person_id}) = 1
    /\ \A f, g \in faculty : f.person_id = g.person_id => f = g

\* Storage after a committed import in which a Faculty row was inserted for an
\* email that two Person rows share
C16_Witness ==
    /\ pc = "returned" /\ response.success
    /\ \E f \in added("faculty") : \E p, q \in person :
          p # q /\ p.email = q.email /\ f.person_id = p.id

\* C17: every row that was in storage when an import started is still there,
\* with all its field values, at every step of the import and after it: the
\* import inserts rows and neither updates nor deletes one.
C17_ExistingRowsKept ==
    /\ before.person \subseteq person
    /\ before.faculty \subseteq faculty
    /\ before.designation \subseteq designation
    /\ before.qualification \subseteq qualification

\* A committed import that added rows to tables that already held some
C17_Witness ==
    /\ pc = "returned" /\ response.success
    /\ before.person # {} /\ before.faculty # {} /\ before.designation # {}
    /\ added("person") # {} /\ added("faculty") # {} /\ added("designation") # {}

\* The rows of the table given to a pipeline that hold a value defeating a
\* normalizer: a text where a number or a date is expected
defeating(table) ==
    {i \in DOMAIN table.rows :
        \E c \in table.columns \cap {"No Of Dependents", "Code", "Date of Joining"} :
            table.rows[i][c] = TEXT}

\* C18: a row with a value that defeats a normalizer (a non-numeric "No Of
\* Dependents", an unparseable date, a non-integer code) never aborts the
\* import: the pipeline succeeds and every other row is emitted.
C18_DefeatingValueDoesNotAbort ==
    (/\ returned.fn \in {"person_pipeline", "faculty_pipeline"}
     /\ returned.fn = "person_pipeline" => "Employee Name" \in args.table.columns
     /\ defeating(args.table) # {})
    => /\ returned.success
       /\ Len(returned.cleaned_data)
              >= Cardinality(DOMAIN args.table.rows \ defeating(args.table))

\* The required fields of the rows a pipeline emits, each with the column of
\* the file it is taken from
RequiredFields ==
    [person_pipeline |->
        { << "First name", "Employee Name" >>, << "Last name", "Employee Name" >>,
          << "Sex", "Sex" >> },
     faculty_pipeline |->
        { << "Code", "Code" >>, << "Title", "Title" >>, << "Status", "Status" >>,
          << "Date of Joining", "Date of Joining" >> }]

\* The values that stand for a missing field
field_defaults(field) ==
    CASE field = "Date of Joining" -> {DATE_DEFAULT}
      [] field = "Title" -> {NA, UNKNOWN}
      [] OTHER -> {NA}

\* C19: every row emitted by the Person and Faculty extractors carries a
\* non-null value for every required field, and a field missing in the source
\* (cell empty or column absent) holds its per-field default.
C19_RequiredFieldsFilled ==
    (returned.fn \in {"person_pipeline", "faculty_pipeline"} /\ returned.success)
    => \A i \in DOMAIN returned.cleaned_data :
           \A f \in RequiredFields[returned.fn] :
               LET field == f[1]
                   source == f[2]
                   missing == \/ source \notin args.table.columns
                              \/ args.table.rows[i][source] = NULL
               IN  /\ field \in returned.columns
                   /\ returned.cleaned_data[i][field] # NULL
                   /\ missing => returned.cleaned_data[i][field] \in field_defaults(field)

\* C20: an extractor fails only when the table holds none of its mapped
\* columns; with at least one mapped column (and no value that defeats a
\* normalizer, the case of C18) it succeeds with one cleaned row per source row.
C20_FailureOnlyWithoutMappedColumns ==
    (returned.fn \in {"person_pipeline", "faculty_pipeline"}
        /\ defeating(args.table) = {})
    => /\ ~returned.success => args.table.columns = {}
       /\ args.table.columns # {} =>
              /\ returned.success
              /\ Len(returned.cleaned_data) = Len(args.table.rows)

\* C21: when the table holds no column that maps to an entity (Person, Faculty
\* or Designation), the entity's extractor returns a failure result, never a
\* success with an empty table.
C21_UnmappedEntityFails ==
    (returned.fn \in {"person_pipeline", "faculty_pipeline", "designation_pipeline"}
        /\ args.table.columns = {})
    => ~returned.success

\* C22: for every row whose name splits into exactly one token, the row the
\* Person extractor emits has that token as First name and "N/A" as Last name.
C22_OneTokenNameKeepsSentinel ==
    (returned.fn = "person_pipeline" /\ returned.success)
    => \A i \in DOMAIN returned.cleaned_data :
           LET tokens == words(args.table.rows[i]["Employee Name"], << >>)
           IN  Len(tokens) = 1 =>
                   /\ returned.cleaned_data[i]["First name"] = tokens[1]
                   /\ returned.cleaned_data[i]["Last name"] = NA

\* C23: for every name of three or more tokens split_name returns the first
\* N-1 tokens joined by single spaces as first name and the last token as last
\* name; a name without token gives both parts null and a name of two tokens
\* is split directly.
C23_LastTokenIsLastName ==
    returned.fn = "split_name" =>
        LET tokens == words(args.name, << >>)
            n == Len(tokens)
        IN  /\ n = 0 => returned.first = NULL /\ returned.last = NULL
            /\ n = 2 => returned.first = tokens[1] /\ returned.last = tokens[2]
            /\ n >= 3 => /\ returned.first = join_words(SubSeq(tokens, 1, n - 1))
                         /\ returned.last = tokens[n]

\* The parts of an email cell: the stretches between separators, as pairs of
\* first and last position, and what is left of a part without the spaces
\* around it
parts_of(email) ==
    {p \in (1..Len(email) + 1) \X (0..Len(email)) :
        /\ p[1] <= p[2] + 1
        /\ p[1] = 1 \/ email[p[1] - 1] \in {";", ",", "/"}
        /\ p[2] = Len(email) \/ email[p[2] + 1] \in {";", ",", "/"}
        /\ \A k \in p[1]..p[2] : email[k] \notin {";", ",", "/"}}

trimmed(email, p) ==
    LET filled == {k \in p[1]..p[2] : email[k] # " "}
        from == CHOOSE k \in filled : \A m \in filled : k <= m
        to == CHOOSE k \in filled : \A m \in filled : k >= m
    IN  IF filled = {} THEN << >> ELSE SubSeq(email, from, to)

kept_parts(email) == {p \in parts_of(email) : trimmed(email, p) # << >>}

\* The k-th kept part in the order of the cell
kept_part(email, k) ==
    CHOOSE p \in kept_parts(email) :
        Cardinality({q \in kept_parts(email) : q[1] < p[1]}) = k - 1

\* The kept parts from the k-th on, each followed by ', ' but the last
RECURSIVE rejoined(_, _)
rejoined(email, k) ==
    LET n == Cardinality(kept_parts(email))
        part == trimmed(email, kept_part(email, k))
    IN  IF k > n THEN << >>
        ELSE IF k = n THEN part
        ELSE part \o << ",", " " >> \o rejoined(email, k + 1)

\* C24: clean_email splits the cell on ';', ',' and '/', trims and lowercases
\* each part, drops the empty parts and rejoins the rest with ', ' in their
\* order; a missing cell or a cell without non-empty part gives null.
C24_EmailPartsRejoined ==
    returned.fn = "clean_email" =>
        LET expected == rejoined(args.email, 1)
        IN  /\ Len(returned.value) = Len(expected)
            /\ \A i \in DOMAIN expected :
                   /\ returned.value[i] \notin Range(UpperCase)
                   /\ returned.value[i] \in {expected[i], lower_char(expected[i])}
                   /\ expected[i] \notin Range(UpperCase) => returned.value[i] = expected[i]
            /\ kept_parts(args.email) = {} => returned.value = NULL

\* Two addresses in one cell, as in "a@x.com; B@x.com"
C24_Witness ==
    /\ returned.fn = "clean_email"
    /\ args.email = << "a", ";", " ", "B" >>
    /\ returned.value = << "a", ",", " ", "b" >>

\* C25: designation handling is over before faculty handling starts: once the
\* import is at handle_faculty or later, every designation title of the table
\* is cached with a row that is written and has its identifier, and every
\* Faculty record built carries the identifier of the row of its title.
C25_DesignationsFlushedBeforeFaculty ==
    /\ pc = "handle_designations" => new_faculties = << >> /\ session.faculty = {}
    /\ pc \in {"handle_faculty", "handle_qualifications", "commit"} =>
          /\ \A i \in DOMAIN combined_df :
                LET t == cleaned(i).academic_designation
                IN  t # NULL =>
                        /\ t \in DOMAIN designation_cache
                        /\ designation_cache[t] \in visible("designation")
                        /\ designation_cache[t].id # NoId
          /\ \A k \in DOMAIN new_faculties :
                LET f == new_faculties[k]
                    t == cleaned(f.src - rows_before).academic_designation
                IN  /\ f.designation_id # NoId
                    /\ \E d \in visible("designation") :
                           d.id = f.designation_id /\ d.title = t

\* A Faculty record built with the identifier of a Designation created by the
\* same import
C25_Witness ==
    /\ pc = "handle_qualifications"
    /\ \E k \in DOMAIN new_faculties :
          \E d \in session.designation : d.id = new_faculties[k].designation_id

\* C26: every Faculty row an import inserts references the Person built from
\* the same source row, with that row's CNIC, also when rows of the file share
\* an email or have none.
C26_FacultyReferencesPersonOfItsRow ==
    (pc = "returned" /\ response.success) =>
        \A f \in added("faculty") :
            \E p \in person :
                /\ p.id = f.person_id
                /\ p.src = f.src
                /\ p.cnic = cleaned(f.src - rows_before).cnic

\* C27: after any calls of save_faculty_track_decision, overlapping or not,
\* there is at most one FacultyTrackAssignment row per faculty and current
\* academic year; once the calls have ended it holds the track, status and
\* remarks of the latest call (updated if it was there, created otherwise);
\* approved_by and approved_on are never modified.
C27_DecisionUpserted ==
    /\ \A r, q \in faculty_track_assignment :
          (r.faculty_id = q.faculty_id /\ r.academic_year_id = q.academic_year_id)
              => r = q
    /\ \A r \in faculty_track_assignment : r.approved_by = 9 /\ r.approved_on = 3
    /\ (in_progress = {} /\ decision_log # << >>) =>
          LET latest == decision_log[Len(decision_log)]
          IN  latest.ay_id # NoId =>
                  \E r \in faculty_track_assignment :
                      /\ r.faculty_id = latest.faculty_id
                      /\ r.academic_year_id = latest.ay_id
                      /\ r.track_id = latest.track_id
                      /\ "status" \in DOMAIN r /\ r.status = latest.status
                      /\ "remarks" \in DOMAIN r /\ r.remarks = latest.remarks

\* The calls of the log after the last dispose_engine
since_dispose ==
    LET disposes == {k \in DOMAIN engine_log : engine_log[k].fn = "dispose_engine"}
        last == IF disposes = {} THEN 0
                ELSE CHOOSE k \in disposes : \A m \in disposes : m <= k
    IN  SubSeq(engine_log, last + 1, Len(engine_log))

\* C28: after any calls of get_async_engine, get_async_session_maker and
\* dispose_engine, the get calls since the last dispose have all returned the
\* same engine and a session maker on it, and a cached session maker is bound
\* to the engine cached in _async_engine.
C28_SessionMakerBoundToCachedEngine ==
    /\ engines.disposing = << >> =>
          \A i, j \in DOMAIN since_dispose :
              (~since_dispose[i].raised /\ ~since_dispose[j].raised)
                  => since_dispose[i].engine = since_dispose[j].engine
    /\ _async_session_maker # NoMaker => _async_session_maker.bind = _async_engine

\* The calls that have ended with their two messages saved
saved_calls == {k \in DOMAIN generate_log : generate_log[k].outcome = "full_response"}

\* C29: under any interleaving of generate calls, the history of every session
\* id is a sequence of pairs, the user message of a successful call of that
\* session followed at once by the response of the same call; each successful
\* call has exactly one pair, a failed call none, and a call reads the history
\* of its own session id only.
C29_HistoryIsOwnPairs ==
    /\ \A sid \in DOMAIN session_memories :
          LET messages == session_memories[sid] IN
          /\ Len(messages) % 2 = 0
          /\ \A i \in DOMAIN messages :
                i % 2 = 1 =>
                    /\ messages[i].type = "human" /\ messages[i + 1].type = "ai"
                    /\ messages[i + 1].call = messages[i].call
                    /\ \E k \in saved_calls :
                          /\ generate_log[k].call = messages[i].call
                          /\ generate_log[k].session_id = sid
                          /\ generate_log[k].user_message = messages[i].content
                          /\ full_response(generate_log[k]) = messages[i + 1].content
          /\ \A i, j \in DOMAIN messages :
                (i # j /\ messages[i].type = messages[j].type)
                    => messages[i].call # messages[j].call
    /\ \A k \in saved_calls :
          \E i \in DOMAIN session_memories[generate_log[k].session_id] :
              session_memories[generate_log[k].session_id][i].call = generate_log[k].call
    /\ \A t \in Tasks : generate_calls[t].history_read \subseteq {generate_calls[t].session_id}
    /\ \A k \in DOMAIN generate_log :
          generate_log[k].history_read \subseteq {generate_log[k].session_id}

\* Two calls of one session that overlapped and both saved their messages,
\* beside a call that failed
C29_Witness ==
    /\ \E sid \in DOMAIN session_memories :
          /\ Len(session_memories[sid]) = 4
          /\ session_memories[sid][1].call > session_memories[sid][3].call
    /\ \E k \in DOMAIN generate_log : generate_log[k].outcome = "An error occurred."

\* C30: for every name of two tokens or more split_name loses, repeats and
\* reorders no token: both parts are non-empty, and the first name, a space
\* and the last name are the tokens of the name joined by single spaces.
C30_SplitNameKeepsTokens ==
    (returned.fn = "split_name" /\ Len(words(args.name, << >>)) >= 2) =>
        /\ returned.first # << >> /\ returned.last # << >>
        /\ words(returned.first, << >>) # << >> /\ words(returned.last, << >>) # << >>
        /\ words(returned.first, << >>) \o words(returned.last, << >>)
               = words(args.name, << >>)
        /\ \A i \in DOMAIN returned.first :
               returned.first[i] = " " =>
                   /\ 1 < i /\ i < Len(returned.first)
                   /\ returned.first[i + 1] # " "
        /\ \A i \in DOMAIN returned.last :
               returned.last[i] = " " =>
                   /\ 1 < i /\ i < Len(returned.last)
                   /\ returned.last[i + 1] # " "

\* A name of four tokens with an initial, split into two tokens and two
C30_Witness ==
    /\ returned.fn = "split_name"
    /\ Len(words(args.name, << >>)) = 4
    /\ Len(words(returned.first, << >>)) = 2
    /\ Len(words(returned.last, << >>)) = 2
    /\ \E i \in 1..4 : words(args.name, << >>)[i] = << "C", "." >>

====
